---- MODULE Spec2Model ----
(***************************************************************************)
(* Model of the cephfs-exporter sources.  The repository holds several     *)
(* variants of the exporter; each is a specification of this module:       *)
(*                                                                         *)
(*   SpecStack      src/main.go:177-405, the work-list (stack) walker,     *)
(*                  one scrape request at a time                           *)
(*   SpecCollector  src/main.go:1-175, the recursive Collector             *)
(*   SpecPeriodic   src/main.go:407-548, the discover-all walker run by a  *)
(*                  background loop                                        *)
(*   SpecConc       src/unnamed/part_000 and src/main.go:398-401,          *)
(*                  overlapping scrape requests sharing one DynamicMetrics *)
(*                                                                         *)
(* Paths are sequences of component names, attribute names and metric      *)
(* names are sequences of tokens, raw attribute values are sequences of    *)
(* characters.                                                             *)
(***************************************************************************)
EXTENDS Integers, Sequences, FiniteSets, TLC

VARIABLES
    fs,          \* the filesystem: raw value of ceph.dir.rbytes of every directory
    config,      \* content of paths.json: the sequence of configured PathEntry
    pc,          \* position of the scrape handler / of the process
    entries,     \* StackEntry.items of the walk in progress
    gauges,      \* dm.gauges: the metric names held by the DynamicMetrics map
    registered,  \* prometheus default registry: MustRegister calls per metric name
    series,      \* the gauge vectors: (metric, org, user, path) -> value
    walks,       \* number of walks started
    faults,      \* number of failing calls injected so far
    reads,       \* this walk: GetXattr calls made, <<path, attr, outcome>>
    sampled,     \* this walk: Set calls made, <<attr, path>>
    listed,      \* this walk: paths given to OpenDir
    popped,      \* this walk: the entries popped, in order
    pushed,      \* this walk: the children pushed, in order
    rejected,    \* this walk: the children whose Push returned an error
    late,        \* this walk: entries popped after a Push under their root was rejected
    reused,      \* this walk: metric names for which AddGauge returned the gauge of the map
    ch,          \* Collector: the metrics sent on the channel by the last Collect
    failedAt,    \* Collector: the paths at which a call of the last Collect failed
    rpc,         \* overlapping requests: position of every request goroutine
    rpos,        \* overlapping requests: <<entry index, attribute index>> of every goroutine
    rval,        \* overlapping requests: the parsed value every goroutine holds
    mapWriter,   \* overlapping requests: goroutines in the middle of writing dm.gauges
    pidx,        \* background loop: index of the next entry of the walk
    scraped,     \* background loop variant: the series the last scrape returned
    completed,   \* background loop variant: the series as every finished walk left them
    running,     \* background loop variant: UpdateMetrics invocations in progress
    prevSamples, \* stack walker: the samples the previous walk recorded and
    prevSeries,  \* the series as they were when this walk started; both kept
                 \* only while no read has failed, empty afterwards
    dirErrors,   \* this walk: failed listing calls, <<path, "open" or "read">>
    seen         \* this walk: paths of the directory entries ReadDir returned

collVars == <<ch, failedAt>>
concVars == <<rpc, rpos, rval, mapWriter>>
perVars == <<pidx, scraped, completed, running>>
stackGhost == <<prevSamples, prevSeries, dirErrors, seen>>

vars == <<fs, config, pc, entries, gauges, registered, series, walks, faults,
          reads, sampled, listed, popped, pushed, rejected, late, reused,
          collVars, concVars, perVars, stackGhost>>

----------------------------------------------------------------------------
(* Bounds of the model *)

\* walks (scrape requests, refresh cycles) started in one behaviour
MaxWalks == 2
\* the maximum depth of spec.md (4.1 step 4; 2 in the scenario of section 8):
\* no variant of the code has such a setting
MaxDepth == 2
\* failing or garbage-returning filesystem calls injected in one behaviour
MaxFaults == 1

(* Program constants.  The two thresholds are scaled down: the code compares *)
(* against them and never computes with them.                                *)

\* src/main.go:201, maxStackSize = 10000
maxStackSize == 2
\* src/main.go:202, directorySizeToRecursse = 100_000_000_000 (stack variant)
directorySizeToRecursse == 10
\* src/main.go:20, directorySizeToRecurse = 100_000_000_000 (Collector variant)
directorySizeToRecurse == 10
\* src/main.go:338, the d_type of a directory entry (DT_DIR)
DT_DIR == 4

----------------------------------------------------------------------------
(* The filesystem the walkers read *)

RBYTES == <<"ceph", ".", "dir", ".", "rbytes">>
RENTRIES == <<"ceph", ".", "dir", ".", "rentries">>
RFILES == <<"ceph", ".", "dir", ".", "rfiles">>
\* an attribute whose value is text, which only ListXattr discovers
USERTAG == <<"user", ".", "tag">>
\* two numeric attributes a user set on /b, which only ListXattr discovers:
\* user.quota.max and user.quota_max
USERQUOTADOT == <<"user", ".", "quota", ".", "max">>
USERQUOTAUNDER == <<"user", ".", "quota", "_", "max">>

\* the directories of the tree, "/" is <<>>
Dirs ==
    { <<>>, <<"a">>, <<"a", "x">>, <<"b">>, <<"b", "p">>, <<"b", "q">>,
      <<"b", "r">>, <<"b", "p", "s">>, <<"b", "p", "s", "t">> }

Parent(path) == SubSeq(path, 1, Len(path) - 1)

\* what ReadDir returns for a directory, call after call: name and d_type
Listing(path) ==
    <<[name |-> ".", dtype |-> DT_DIR], [name |-> "..", dtype |-> DT_DIR]>> \o
    ( CASE path = <<>> -> <<[name |-> "a", dtype |-> DT_DIR], [name |-> "b", dtype |-> DT_DIR]>>
        [] path = <<"a">> -> <<[name |-> "f", dtype |-> 8], [name |-> "x", dtype |-> DT_DIR]>>
        [] path = <<"b">> -> <<[name |-> "p", dtype |-> DT_DIR], [name |-> "q", dtype |-> DT_DIR],
                               [name |-> "r", dtype |-> DT_DIR]>>
        [] path = <<"b", "p">> -> <<[name |-> "s", dtype |-> DT_DIR]>>
        [] path = <<"b", "p", "s">> -> <<[name |-> "g", dtype |-> 8], [name |-> "t", dtype |-> DT_DIR]>>
        [] OTHER -> <<>> )

\* raw values a directory's ceph.dir.rbytes takes: below, at and above the threshold
SizeRaws == { <<"9">>, <<"1", "0">>, <<"1", "1">> }

IsPrefix(p, q) == Len(p) <= Len(q) /\ SubSeq(q, 1, Len(p)) = p

\* the filesystems of the model: every directory is above the threshold, or
\* one directory and all below it are under the threshold, or at it (rbytes is
\* a recursive total: no directory is bigger than its parent)
Filesystems ==
    { [d \in Dirs |-> <<"1", "1">>] } \cup
    { [d \in Dirs |-> IF IsPrefix(cut, d) THEN <<"9">> ELSE <<"1", "1">>] :
        cut \in Dirs \ {<<>>} } \cup
    { [d \in Dirs |-> IF IsPrefix(cut, d) THEN <<"1", "0">> ELSE <<"1", "1">>] :
        cut \in { <<"a">>, <<"b">>, <<"b", "p">> } }

Digits == { "0", "1", "2", "3", "4", "5", "6", "7", "8", "9" }

DigitVal(c) ==
    CASE c = "0" -> 0 [] c = "1" -> 1 [] c = "2" -> 2 [] c = "3" -> 3 [] c = "4" -> 4
      [] c = "5" -> 5 [] c = "6" -> 6 [] c = "7" -> 7 [] c = "8" -> 8 [] c = "9" -> 9

RECURSIVE DecimalVal(_)
DecimalVal(raw) ==
    IF raw = <<>> THEN 0
    ELSE 10 * DecimalVal(SubSeq(raw, 1, Len(raw) - 1)) + DigitVal(raw[Len(raw)])

\* strconv.ParseFloat on the raw values of the model: an error (and 0) for the
\* empty string and for anything that is not a digit
ParseFloat(raw) ==
    IF raw /= <<>> /\ \A i \in 1..Len(raw) : raw[i] \in Digits
    THEN [ok |-> TRUE, f |-> DecimalVal(raw)]
    ELSE [ok |-> FALSE, f |-> 0]

\* info.GetXattr on a call that succeeds
GetXattr(path, attr) ==
    IF attr = RBYTES THEN fs[path]
    ELSE IF attr = RENTRIES THEN <<"5">>
    ELSE IF attr = RFILES THEN <<"3">>
    ELSE IF attr = USERQUOTADOT THEN <<"7">>
    ELSE IF attr = USERQUOTAUNDER THEN <<"8">>
    ELSE <<"x">>

\* info.ListXattr on a call that succeeds: the attribute names of a directory
ListXattr(path) ==
    IF path = <<"b">>
    THEN <<RBYTES, RENTRIES, USERTAG, USERQUOTADOT, USERQUOTAUNDER>>
    ELSE <<RBYTES, RENTRIES, USERTAG>>

\* outcomes of one GetXattr call: the stored value, an error, or bytes that
\* are no number
Outcomes == { "ok", "err", "bad" }

RawOf(path, attr, o) ==
    IF o = "bad" THEN <<>> ELSE GetXattr(path, attr)

----------------------------------------------------------------------------
(* PathEntry, StackEntry *)

PathEntry(org, user, path) == [Organisation |-> org, User |-> user, Path |-> path]

RootA == PathEntry("acme", "alice", <<"a">>)
RootB == PathEntry("beta", "bob", <<"b">>)
RootC == PathEntry("acme", "carol", <<"a">>)
RootD == PathEntry("beta", "dave", <<"b">>)

\* the paths.json files of the model
RootConfigs == { <<RootB>>, <<RootA, RootB>>, <<RootA, RootB, RootC, RootD>> }

RootPaths == { config[i].Path : i \in 1..Len(config) }

\* filepath.Join(path, name): joins and cleans
JoinNameOnly(path, name) == <<name>>

Join(path, name) ==
    IF name = "." THEN path
    ELSE IF name = ".." THEN Parent(path)
    ELSE Append(path, name)

\* StackEntry.Push: the new items and whether an error is returned
Push(items, data) ==
    IF Len(items) > maxStackSize
    THEN [items |-> items, err |-> TRUE]
    ELSE [items |-> Append(items, data), err |-> FALSE]

\* a Pop that returns the oldest item, as a queue would
PopFront(items) == [entry |-> items[1], items |-> SubSeq(items, 2, Len(items))]

\* StackEntry.Pop on a non-empty stack
Pop(items) == [entry |-> items[Len(items)], items |-> SubSeq(items, 1, Len(items) - 1)]

\* PathEntry.Tags
Tags(entry) == <<entry.Organisation, entry.User, entry.Path>>

----------------------------------------------------------------------------
(* DynamicMetrics *)

\* fmt.Sprintf("cephfs_xattr_%s", strings.ReplaceAll(attr, ".", "_"))
MetricName(attr) ==
    <<"cephfs_xattr_">> \o [i \in 1..Len(attr) |-> IF attr[i] = "." THEN "_" ELSE attr[i]]

AttrNames == {RBYTES, RENTRIES, RFILES, USERTAG, USERQUOTADOT, USERQUOTAUNDER}

MetricNames == { MetricName(a) : a \in AttrNames }

\* prometheus.MustRegister: panics when the name is already registered
MustRegister(reg, name) == [reg EXCEPT ![name] = @ + 1]

\* DynamicMetrics.AddGauge on dm = [gauges, registered]: the map and the
\* registry after the call, hit = the gauge was found in the map
AddGaugeAlways(dm, name) ==
    [gauges |-> dm.gauges \cup {name}, registered |-> MustRegister(dm.registered, name),
     hit |-> FALSE, panic |-> dm.registered[name] > 0]

AddGauge(dm, name) ==
    IF name \in dm.gauges
    THEN [gauges |-> dm.gauges, registered |-> dm.registered, hit |-> TRUE, panic |-> FALSE]
    ELSE [gauges |-> dm.gauges \cup {name}, registered |-> MustRegister(dm.registered, name),
          hit |-> FALSE, panic |-> dm.registered[name] > 0]

\* a Set that adds to the value the series holds, as gauge.Add would
SetSeriesAdd(s, key, f) ==
    [k \in DOMAIN s \cup {key} |-> IF k = key
                                   THEN (IF key \in DOMAIN s THEN s[key] + f ELSE f)
                                   ELSE s[k]]

\* a Set that replaces the registry by the one series it writes
SetSeriesOnly(s, key, f) == [k \in {key} |-> f]

\* gauge.With(labels).Set(f)
SetSeries(s, key, f) == [k \in DOMAIN s \cup {key} |-> IF k = key THEN f ELSE s[k]]

----------------------------------------------------------------------------
(* The stack walker: DynamicMetrics.UpdateMetrics of src/main.go:293-354 *)

attrs == <<RBYTES, RENTRIES, RFILES>>

\* the walk's state as UpdateMetrics threads it through one entry
WalkState ==
    [entries |-> entries, gauges |-> gauges, registered |-> registered, series |-> series,
     reads |-> reads, sampled |-> sampled, listed |-> listed, pushed |-> pushed,
     rejected |-> rejected, reused |-> reused, dirErrors |-> dirErrors, seen |-> seen,
     panicked |-> FALSE]

\* a ReadDir loop without the test of the entry's type: every entry other
\* than "." and ".." is pushed
RECURSIVE PushChildrenAnyType(_, _, _, _)
PushChildrenAnyType(st, entry, read, i) ==
    IF i > Len(read) THEN st
    ELSE LET entryDir == read[i]
         IN IF entryDir.name = "." \/ entryDir.name = ".."
            THEN PushChildrenAnyType(st, entry, read, i + 1)
            ELSE LET newEntry == PathEntry(entry.Organisation, entry.User,
                                           Join(entry.Path, entryDir.name))
                     r == Push(st.entries, newEntry)
                     st1 == [st EXCEPT !.seen = @ \cup {newEntry}]
                 IN PushChildrenAnyType(
                        IF r.err
                        THEN [st1 EXCEPT !.rejected = @ \cup {newEntry}]
                        ELSE [st1 EXCEPT !.entries = r.items, !.pushed = Append(@, newEntry)],
                        entry, read, i + 1)

\* the ReadDir loop over the entries that were read: "." and ".." and what is
\* no directory are skipped, a directory is pushed, a failed Push is printed
RECURSIVE PushChildren(_, _, _, _)
PushChildren(st, entry, read, i) ==
    IF i > Len(read) THEN st
    ELSE LET entryDir == read[i]
         IN IF entryDir.name = "." \/ entryDir.name = ".."
            THEN PushChildren(st, entry, read, i + 1)
            ELSE IF entryDir.dtype = DT_DIR
            THEN LET newEntry == PathEntry(entry.Organisation, entry.User,
                                           Join(entry.Path, entryDir.name))
                     r == Push(st.entries, newEntry)
                     st1 == [st EXCEPT !.seen = @ \cup {newEntry}]
                 IN PushChildren(
                        IF r.err
                        THEN [st1 EXCEPT !.rejected = @ \cup {newEntry}]
                        ELSE [st1 EXCEPT !.entries = r.items, !.pushed = Append(@, newEntry)],
                        entry, read, i + 1)
            ELSE PushChildren(st, entry, read, i + 1)

\* outcomes of listing a directory.  open = "ok": OpenDir succeeds and the
\* first n ReadDir calls return an entry (n below the length of the listing:
\* the next ReadDir fails, which is printed and ends the loop as entryDir is
\* nil).  OpenDir failing is printed and ReadDir is then called on the nil
\* handle it returned: the library either returns an error ("err": the loop
\* ends) or dereferences the handle and the handler panics ("panic").
DirOutcomes(path) ==
    { [open |-> "ok", n |-> n] : n \in 0..Len(Listing(path)) } \cup
    { [open |-> "err", n |-> 0], [open |-> "panic", n |-> 0] }

DirFault(path, od) == od.open /= "ok" \/ od.n < Len(Listing(path))

\* src/main.go:323-349
Expand(st, entry, od) ==
    LET st1 == [st EXCEPT !.listed = @ \cup {entry.Path}]
        st2 == [st1 EXCEPT !.dirErrors = @ \cup {<<entry.Path, "open">>}]
        st3 == IF od.n < Len(Listing(entry.Path))
               THEN [st1 EXCEPT !.dirErrors = @ \cup {<<entry.Path, "read">>}]
               ELSE st1
    IN IF od.open = "panic" THEN [st2 EXCEPT !.panicked = TRUE]
       ELSE IF od.open = "err" THEN st2
       ELSE PushChildren(st3, entry, SubSeq(Listing(entry.Path), 1, od.n), 1)

\* the size test of src/main.go:322
BigEnough(f) == f > directorySizeToRecursse

\* one round of the loop over attrs, src/main.go:306-352
ProcessAttr(st, entry, attr, o, od) ==
    IF st.panicked THEN st
    ELSE
    LET st1 == [st EXCEPT !.reads = @ \cup {<<entry.Path, attr, o>>}]
        p == ParseFloat(RawOf(entry.Path, attr, o))
    IN IF o = "err" THEN st1
       ELSE IF ~p.ok THEN st1
       ELSE LET name == MetricName(attr)
                dm == AddGauge([gauges |-> st1.gauges, registered |-> st1.registered], name)
                st2 == [st1 EXCEPT !.gauges = dm.gauges, !.registered = dm.registered,
                                   !.reused = IF dm.hit THEN @ \cup {name} ELSE @]
                st3 == [st2 EXCEPT !.series = SetSeries(@, <<name>> \o Tags(entry), p.f),
                                   !.sampled = @ \cup {<<attr, entry.Path>>}]
            IN IF dm.panic THEN [st2 EXCEPT !.panicked = TRUE]
               ELSE IF attr = RBYTES /\ BigEnough(p.f) THEN Expand(st3, entry, od)
               ELSE st3

\* the body of the work-list loop for one popped entry
ProcessEntry(st, entry, o, od) ==
    ProcessAttr(ProcessAttr(ProcessAttr(st, entry, attrs[1], o[1], od),
                            entry, attrs[2], o[2], od),
                entry, attrs[3], o[3], od)

\* a LoadDirsConfig that applies the size threshold to the configured entries
\* too: what the walker does not do
RECURSIVE LoadDirsConfigBigOnly(_, _)
LoadDirsConfigBigOnly(items, i) ==
    IF i > Len(config) THEN [items |-> items, err |-> FALSE]
    ELSE IF ~BigEnough(ParseFloat(fs[config[i].Path]).f)
    THEN LoadDirsConfigBigOnly(items, i + 1)
    ELSE LET r == Push(items, config[i])
         IN IF r.err THEN r ELSE LoadDirsConfigBigOnly(r.items, i + 1)

\* LoadDirsConfig of src/main.go:272-291: every configured entry is pushed;
\* fatal when a Push fails
RECURSIVE LoadDirsConfig(_, _)
LoadDirsConfig(items, i) ==
    IF i > Len(config) THEN [items |-> items, err |-> FALSE]
    ELSE LET r == Push(items, config[i])
         IN IF r.err THEN r ELSE LoadDirsConfig(r.items, i + 1)

FaultCount(o, path, od) ==
    Cardinality({ i \in 1..3 : o[i] /= "ok" }) + (IF DirFault(path, od) THEN 1 ELSE 0)

\* the identity of the configured root an entry descends from
RootOf(entry) == <<entry.Organisation, entry.User>>

Overflowed == { RootOf(e) : e \in rejected }

TypeOK ==
    /\ fs \in [Dirs -> SizeRaws]
    /\ pc \in { "idle", "walking", "fatal", "panicked", "sleeping" }
    /\ walks \in 0..MaxWalks
    /\ faults \in 0..MaxFaults
    /\ gauges \subseteq MetricNames

\* the number of request goroutines that may overlap
NumRequests == 2

Requests == 1..NumRequests

InitCommon ==
    /\ fs \in Filesystems
    /\ pc = "idle"
    /\ entries = <<>>
    /\ gauges = {}
    /\ registered = [n \in MetricNames |-> 0]
    /\ series = <<>>
    /\ walks = 0
    /\ faults = 0
    /\ reads = {}
    /\ sampled = {}
    /\ listed = {}
    /\ popped = <<>>
    /\ pushed = <<>>
    /\ rejected = {}
    /\ late = {}
    /\ reused = {}
    /\ ch = <<>>
    /\ failedAt = {}
    /\ rpc = [r \in Requests |-> "idle"]
    /\ rpos = [r \in Requests |-> <<1, 1>>]
    /\ rval = [r \in Requests |-> 0]
    /\ mapWriter = {}
    /\ pidx = 1
    /\ scraped = <<>>
    /\ completed = { <<>> }
    /\ running = 0
    /\ prevSamples = {}
    /\ prevSeries = <<>>
    /\ dirErrors = {}
    /\ seen = {}

Init ==
    /\ InitCommon
    /\ config \in RootConfigs

\* the samples this walk has recorded so far: for every popped entry and every
\* attribute of it that was set (src/main.go:320), the metric name, the labels
\* of the entry and the value the series holds
Samples ==
    { <<MetricName(a), popped[i].Organisation, popped[i].User, popped[i].Path,
        series[<<MetricName(a)>> \o Tags(popped[i])]>> :
      <<i, a>> \in { x \in (1..Len(popped)) \X {RBYTES, RENTRIES, RFILES} :
                      <<x[2], popped[x[1]].Path>> \in sampled } }

\* a scrape request arrives (src/main.go:398-399): UpdateMetrics loads the roots
StartWalk ==
    /\ pc \in { "idle", "panicked" }
    /\ walks < MaxWalks
    /\ walks' = walks + 1
    /\ LET r == LoadDirsConfig(<<>>, 1)
       IN /\ entries' = r.items
          /\ pc' = IF r.err THEN "fatal" ELSE "walking"
    /\ reads' = {}
    /\ sampled' = {}
    /\ listed' = {}
    /\ popped' = <<>>
    /\ pushed' = <<>>
    /\ rejected' = {}
    /\ late' = {}
    /\ reused' = {}
    /\ dirErrors' = {}
    /\ seen' = {}
    /\ prevSamples' = IF faults = 0 THEN Samples ELSE {}
    /\ prevSeries' = IF faults = 0 THEN series ELSE <<>>
    /\ UNCHANGED <<fs, config, gauges, registered, series, faults>>
    /\ UNCHANGED <<collVars, concVars, perVars>>

\* one round of the work-list loop: Pop, then the attributes of the entry
WalkStep ==
    /\ pc = "walking"
    /\ entries /= <<>>
    /\ LET top == Pop(entries)
       IN \E o \in [1..3 -> Outcomes], od \in DirOutcomes(top.entry.Path) :
            /\ faults + FaultCount(o, top.entry.Path, od) <= MaxFaults
            /\ LET st == ProcessEntry([WalkState EXCEPT !.entries = top.items],
                                      top.entry, o, od)
               IN /\ entries' = st.entries
                  /\ gauges' = st.gauges
                  /\ registered' = st.registered
                  /\ series' = st.series
                  /\ reads' = st.reads
                  /\ sampled' = st.sampled
                  /\ listed' = st.listed
                  /\ pushed' = st.pushed
                  /\ rejected' = st.rejected
                  /\ reused' = st.reused
                  /\ dirErrors' = st.dirErrors
                  /\ seen' = st.seen
                  /\ pc' = IF st.panicked THEN "panicked" ELSE "walking"
                  /\ faults' = faults +
                        (IF top.entry.Path \in st.listed \ listed
                         THEN FaultCount(o, top.entry.Path, od)
                         ELSE Cardinality({ i \in 1..3 : o[i] /= "ok" }))
            /\ popped' = Append(popped, top.entry)
            /\ late' = IF RootOf(top.entry) \in Overflowed THEN late \cup {top.entry} ELSE late
    /\ UNCHANGED <<fs, config, walks, prevSamples, prevSeries>>
    /\ UNCHANGED <<collVars, concVars, perVars>>

\* the stack is empty: UpdateMetrics returns and the handler serves the registry
WalkDone ==
    /\ pc = "walking"
    /\ entries = <<>>
    /\ pc' = "idle"
    /\ UNCHANGED <<fs, config, entries, gauges, registered, series, walks, faults,
                   reads, sampled, listed, popped, pushed, rejected, late, reused>>
    /\ UNCHANGED <<collVars, concVars, perVars, stackGhost>>

NextStack == StartWalk \/ WalkStep \/ WalkDone

SpecStack == Init /\ [][NextStack]_vars

Spec == SpecStack

----------------------------------------------------------------------------
(* Claims about the stack walker, under SpecStack *)

SizeOf(path) == ParseFloat(fs[path]).f

\* the depth of an entry below the configured root it descends from
Depth(entry) == Len(entry.Path) - 1

ChildrenPushedOf(path) == { i \in 1..Len(pushed) : Parent(pushed[i].Path) = path }

\* C1: a discovered child directory (not a configured root) whose
\* ceph.dir.rbytes was read and is below the threshold is neither sampled nor
\* expanded: no sample of any attribute for its path, no other attribute of it
\* read, it is not listed and no child of it is pushed.
C1_SmallChildPruned ==
    \A r \in reads :
        (r[2] = RBYTES /\ r[3] = "ok" /\ r[1] \notin RootPaths
            /\ SizeOf(r[1]) < directorySizeToRecursse)
        => /\ \A a \in {RBYTES, RENTRIES, RFILES} : <<a, r[1]>> \notin sampled
           /\ \A q \in reads : q[1] = r[1] => q[2] = RBYTES
           /\ r[1] \notin listed
           /\ ChildrenPushedOf(r[1]) = {}

\* C2: the Frontier never holds more than maxStackSize items.
C2_FrontierWithinCapacity == Len(entries) <= maxStackSize

\* C4: AddGauge called sequentially registers a metric name on the first call
\* only: at every point there is at most one registration per metric name, the
\* map holds exactly the registered names, and a call that finds the name in
\* the map registers nothing.
C4_OneGaugePerName ==
    /\ \A n \in MetricNames : registered[n] <= 1 /\ (n \in gauges <=> registered[n] = 1)
    /\ reused \subseteq gauges
    /\ pc /= "panicked" \/ faults > 0

\* C4 witness: the first entry of the second walk has been processed and its
\* AddGauge call for rbytes found the gauge that the first walk registered.
C4_Witness ==
    /\ walks = 2
    /\ Len(popped) = 1
    /\ MetricName(RBYTES) \in reused
    /\ <<RBYTES, popped[1].Path>> \in sampled
    /\ registered[MetricName(RBYTES)] = 1

\* C5: after a Push of a child is rejected, no further entry descending from
\* the root in question is processed, and every other configured root is still
\* walked.
C5_OverflowStopsRoot ==
    /\ late = {}
    /\ (pc = "idle" /\ walks > 0 /\ rejected /= {})
        => \A i \in 1..Len(config) :
              RootOf(config[i]) \notin Overflowed
              => \E j \in 1..Len(popped) : popped[j] = config[i]

\* C6: when reading ceph.dir.rbytes of a visited directory fails, no sample of
\* any attribute is recorded for its path and no child of it is pushed.
C6_SizeReadFailureNoSample ==
    \A r \in reads :
        (r[2] = RBYTES /\ r[3] = "err")
        => /\ \A a \in {RBYTES, RENTRIES, RFILES} : <<a, r[1]>> \notin sampled
           /\ ChildrenPushedOf(r[1]) = {}

\* C9: a visited directory whose size is greater than or equal to the
\* threshold (and whose depth is below the maximum depth) is expanded: its
\* children are listed.
C9_AtThresholdExpanded ==
    \A i \in 1..Len(popped) :
        (<<popped[i].Path, RBYTES, "ok">> \in reads
            /\ SizeOf(popped[i].Path) >= directorySizeToRecursse
            /\ Depth(popped[i]) < MaxDepth)
        => popped[i].Path \in listed

\* C10: no entry deeper than the maximum depth is created or visited, and a
\* directory at the maximum depth is never expanded.
C10_DepthBounded ==
    /\ \A i \in 1..Len(pushed) : Depth(pushed[i]) <= MaxDepth
    /\ \A i \in 1..Len(popped) :
          /\ Depth(popped[i]) <= MaxDepth
          /\ Depth(popped[i]) = MaxDepth => popped[i].Path \notin listed

----------------------------------------------------------------------------
(* The recursive Collector of src/main.go:36-127 *)

\* the calls of one Collect that can fail: a GetXattr that errors or returns
\* bytes that are no number, an OpenDir, the k-th ReadDir of a directory
FaultSites ==
    { <<d, a, 0>> : d \in Dirs, a \in {"rbytes.err", "rbytes.bad", "rentries.err", "rentries.bad"} } \cup
    { <<d, "opendir", 0>> : d \in Dirs } \cup
    UNION { { <<d, "readdir", k>> : k \in 1..(Len(Listing(d)) + 1) } : d \in Dirs }

\* the sets of at most n failing calls
RECURSIVE FaultSets(_)
FaultSets(n) ==
    IF n = 0 THEN { {} }
    ELSE FaultSets(n - 1) \cup { S \cup {x} : S \in FaultSets(n - 1), x \in FaultSites }

AttrSite(attr, o) ==
    IF attr = RBYTES THEN (IF o = "err" THEN "rbytes.err" ELSE "rbytes.bad")
    ELSE (IF o = "err" THEN "rentries.err" ELSE "rentries.bad")

OutcomeAt(F, path, attr) ==
    IF <<path, AttrSite(attr, "err"), 0>> \in F THEN "err"
    ELSE IF <<path, AttrSite(attr, "bad"), 0>> \in F THEN "bad"
    ELSE "ok"

\* getNumXattr, src/main.go:52-62
getNumXattr(F, path, attr) ==
    LET o == OutcomeAt(F, path, attr)
        p == ParseFloat(RawOf(path, attr, o))
    IN IF o = "err" THEN [ok |-> FALSE, f |-> -1]
       ELSE IF ~p.ok THEN [ok |-> FALSE, f |-> -1]
       ELSE [ok |-> TRUE, f |-> p.f]

Failed(st, path) == [st EXCEPT !.err = TRUE, !.failedAt = @ \cup {path}]

\* observePath (src/main.go:64-127) and its ReadDir loop (102-123); st is what
\* the call has done so far: the metrics sent, the calls made, the error returned
RECURSIVE observePath(_, _, _, _)
RECURSIVE observeChildren(_, _, _, _)
observePath(st, F, path, optional) ==
    LET rbytes == getNumXattr(F, path, RBYTES)
        st1 == [st EXCEPT !.reads = @ \cup {<<path, RBYTES, OutcomeAt(F, path, RBYTES)>>},
                          !.popped = Append(@, path)]
        rentries == getNumXattr(F, path, RENTRIES)
        st2 == [st1 EXCEPT !.reads = @ \cup {<<path, RENTRIES, OutcomeAt(F, path, RENTRIES)>>}]
        st3 == [st2 EXCEPT !.ch = @ \o << <<"cephfs_rbytes", rbytes.f, path>>,
                                          <<"cephfs_rentries", rentries.f, path>> >>]
        st4 == [st3 EXCEPT !.listed = @ \cup {path}]
    IN IF ~rbytes.ok THEN Failed(st1, path)
       ELSE IF optional /\ rbytes.f < directorySizeToRecurse THEN st1
       ELSE IF ~rentries.ok THEN Failed(st2, path)
       ELSE IF rbytes.f >= directorySizeToRecurse
       THEN IF <<path, "opendir", 0>> \in F THEN Failed(st4, path)
            ELSE observeChildren(st4, F, path, 1)
       ELSE st3

observeChildren(st, F, path, i) ==
    IF <<path, "readdir", i>> \in F THEN Failed(st, path)
    ELSE IF i > Len(Listing(path)) THEN st
    ELSE LET entryDir == Listing(path)[i]
         IN IF entryDir.name = "." \/ entryDir.name = ".."
            THEN observeChildren(st, F, path, i + 1)
            ELSE IF entryDir.dtype = DT_DIR
            THEN LET r == observePath(st, F, Join(path, entryDir.name), TRUE)
                 IN IF r.err THEN r
                    ELSE observeChildren(r, F, path, i + 1)
            ELSE observeChildren(st, F, path, i + 1)

\* the calls of F that the Collect has made
FaultsHit(F, st) ==
    { x \in F :
        \/ \E a \in {RBYTES, RENTRIES}, o \in {"err", "bad"} :
              x[2] = AttrSite(a, o) /\ <<x[1], a, o>> \in st.reads
        \/ x[2] \in {"opendir", "readdir"} /\ x[1] \in st.failedAt }

InitCollector ==
    /\ InitCommon
    /\ config = <<>>

\* Collector.Collect, src/main.go:45-50: one scrape of the registry
Collect ==
    /\ pc = "idle"
    /\ walks < MaxWalks
    /\ \E F \in FaultSets(MaxFaults - faults) :
         LET st == observePath([ch |-> <<>>, reads |-> {}, listed |-> {}, popped |-> <<>>,
                                failedAt |-> {}, err |-> FALSE], F, <<>>, FALSE)
         IN /\ F = FaultsHit(F, st)
            /\ ch' = st.ch
            /\ reads' = st.reads
            /\ listed' = st.listed
            /\ popped' = st.popped
            /\ failedAt' = st.failedAt
            /\ faults' = faults + Cardinality(F)
    /\ walks' = walks + 1
    /\ UNCHANGED <<fs, config, pc, entries, gauges, registered, series, sampled,
                   pushed, rejected, late, reused, concVars, perVars, stackGhost>>

NextCollector == Collect

SpecCollector == InitCollector /\ [][NextCollector]_vars

\* the directories a Collect is to observe: "/" and every directory whose
\* ancestors and itself are at or above the threshold
RECURSIVE Eligible(_)
Eligible(path) ==
    path = <<>> \/ (SizeOf(path) >= directorySizeToRecurse /\ SizeOf(Parent(path)) >= directorySizeToRecurse
                    /\ Eligible(Parent(path)))

\* C7: a read failure on one directory never aborts the whole walk: every
\* other directory that is reachable through directories passing the size check
\* and is not inside the failed directory's subtree is visited and sampled.
C7_FailureDoesNotAbortWalk ==
    walks > 0 =>
        \A d \in Dirs :
            (Eligible(d) /\ \A x \in failedAt : ~IsPrefix(x, d))
            => \E i \in 1..Len(ch) : ch[i][1] = "cephfs_rbytes" /\ ch[i][3] = d

----------------------------------------------------------------------------
(* Overlapping scrape requests of the on-demand exporter: the handler of   *)
(* src/unnamed/part_000:143-146 (the same as src/main.go:398-401) runs     *)
(* UpdateMetrics (part_000:75-99) in the goroutine of every request, on    *)
(* the one DynamicMetrics.  AddGauge (part_000:48-60, the same as          *)
(* src/main.go:258-270) takes no lock: its map lookup, MustRegister and    *)
(* map store are steps that interleave.                                    *)

InitConc ==
    /\ InitCommon
    /\ fs = [d \in Dirs |-> <<"1", "1">>]
    /\ config = <<RootA>>

ReqEntry(r) == config[rpos[r][1]]

ReqAttr(r) == attrs[rpos[r][2]]

ReqName(r) == MetricName(ReqAttr(r))

\* the next round of the two nested loops of UpdateMetrics
NextPos(pos) == IF pos[2] < Len(attrs) THEN <<pos[1], pos[2] + 1>> ELSE <<pos[1] + 1, 1>>

concFrame == <<fs, config, entries, reads, sampled, listed, popped, pushed, rejected,
               late, reused, collVars, perVars, stackGhost>>

\* a request arrives: the handler calls UpdateMetrics, which loads paths.json
ReqStart(r) ==
    /\ pc /= "fatal"
    /\ rpc[r] \in { "idle", "panicked" }
    /\ walks < MaxWalks
    /\ walks' = walks + 1
    /\ rpc' = [rpc EXCEPT ![r] = "attr"]
    /\ rpos' = [rpos EXCEPT ![r] = <<1, 1>>]
    /\ UNCHANGED <<pc, gauges, registered, series, faults, rval, mapWriter, concFrame>>

\* part_000:83-93: GetXattr and ParseFloat; a failure goes on to the next attribute
ReqGetXattr(r) ==
    /\ pc /= "fatal"
    /\ rpc[r] = "attr"
    /\ rpos[r][1] <= Len(config)
    /\ \E o \in Outcomes :
         LET p == ParseFloat(RawOf(ReqEntry(r).Path, ReqAttr(r), o))
         IN /\ o /= "ok" => faults < MaxFaults
            /\ faults' = IF o = "ok" THEN faults ELSE faults + 1
            /\ IF o = "err" \/ ~p.ok
               THEN /\ rpos' = [rpos EXCEPT ![r] = NextPos(@)]
                    /\ UNCHANGED <<rpc, rval>>
               ELSE /\ rval' = [rval EXCEPT ![r] = p.f]
                    /\ rpc' = [rpc EXCEPT ![r] = "lookup"]
                    /\ UNCHANGED rpos
    /\ UNCHANGED <<pc, gauges, registered, series, walks, mapWriter, concFrame>>

\* part_000:49-51: the lookup in dm.gauges.  While another goroutine is in the
\* middle of storing into the map the read is a data race: the runtime may stop
\* the process ("concurrent map read and map write"), or the read sees the map
\* without or with the entries being stored.
ReqLookup(r) ==
    /\ pc /= "fatal"
    /\ rpc[r] = "lookup"
    /\ LET racing == mapWriter \ {r}
           storing == { ReqName(w) : w \in racing }
       IN \/ /\ rpc' = [rpc EXCEPT ![r] = IF ReqName(r) \in gauges THEN "set" ELSE "register"]
             /\ UNCHANGED pc
          \/ /\ racing /= {}
             /\ ReqName(r) \in storing
             /\ rpc' = [rpc EXCEPT ![r] = "set"]
             /\ UNCHANGED pc
          \/ /\ racing /= {}
             /\ pc' = "fatal"
             /\ UNCHANGED rpc
    /\ UNCHANGED <<gauges, registered, series, walks, faults, rpos, rval, mapWriter, concFrame>>

\* part_000:53-57: NewGaugeVec and MustRegister, which panics when the name is
\* registered already; the panic ends the request
ReqRegister(r) ==
    /\ pc /= "fatal"
    /\ rpc[r] = "register"
    /\ registered' = MustRegister(registered, ReqName(r))
    /\ rpc' = [rpc EXCEPT ![r] = IF registered[ReqName(r)] > 0 THEN "panicked" ELSE "store"]
    /\ UNCHANGED <<pc, gauges, series, walks, faults, rpos, rval, mapWriter, concFrame>>

\* part_000:58: the store into dm.gauges begins; with another store under way
\* the runtime may stop the process ("concurrent map writes")
ReqStoreBegin(r) ==
    /\ pc /= "fatal"
    /\ rpc[r] = "store"
    /\ \/ /\ mapWriter' = mapWriter \cup {r}
          /\ rpc' = [rpc EXCEPT ![r] = "storing"]
          /\ UNCHANGED pc
       \/ /\ mapWriter /= {}
          /\ pc' = "fatal"
          /\ UNCHANGED <<rpc, mapWriter>>
    /\ UNCHANGED <<gauges, registered, series, walks, faults, rpos, rval, concFrame>>

\* part_000:58-59: the store into dm.gauges is done, AddGauge returns
ReqStoreEnd(r) ==
    /\ pc /= "fatal"
    /\ rpc[r] = "storing"
    /\ gauges' = gauges \cup {ReqName(r)}
    /\ mapWriter' = mapWriter \ {r}
    /\ rpc' = [rpc EXCEPT ![r] = "set"]
    /\ UNCHANGED <<pc, registered, series, walks, faults, rpos, rval, concFrame>>

\* part_000:96: gauge.With(entry.Tags()).Set(f)
ReqSet(r) ==
    /\ pc /= "fatal"
    /\ rpc[r] = "set"
    /\ series' = SetSeries(series, <<ReqName(r)>> \o Tags(ReqEntry(r)), rval[r])
    /\ rpos' = [rpos EXCEPT ![r] = NextPos(@)]
    /\ rpc' = [rpc EXCEPT ![r] = "attr"]
    /\ UNCHANGED <<pc, gauges, registered, walks, faults, rval, mapWriter, concFrame>>

\* UpdateMetrics returns and the handler serves the registry (part_000:145)
ReqDone(r) ==
    /\ pc /= "fatal"
    /\ rpc[r] = "attr"
    /\ rpos[r][1] > Len(config)
    /\ rpc' = [rpc EXCEPT ![r] = "idle"]
    /\ UNCHANGED <<pc, gauges, registered, series, walks, faults, rpos, rval, mapWriter,
                   concFrame>>

NextConc ==
    \E r \in Requests :
        \/ ReqStart(r)
        \/ ReqGetXattr(r)
        \/ ReqLookup(r)
        \/ ReqRegister(r)
        \/ ReqStoreBegin(r)
        \/ ReqStoreEnd(r)
        \/ ReqSet(r)
        \/ ReqDone(r)

SpecConc == InitConc /\ [][NextConc]_vars

\* C3: with scrape requests running UpdateMetrics concurrently, every metric
\* name is registered by exactly one MustRegister call and no request reaches
\* the duplicate-registration panic.
C3_RegisteredOnceConcurrently ==
    /\ \A n \in MetricNames : registered[n] <= 1
    /\ \A r \in Requests : rpc[r] /= "panicked"

----------------------------------------------------------------------------
(* The discover-all exporter of src/main.go:407-548: a background goroutine *)
(* runs UpdateMetrics and sleeps, in a loop; /metrics is served by the      *)
(* promhttp handler from the registry at any time.                          *)

InitPeriodic ==
    /\ InitCommon
    /\ config \in { <<RootA>>, <<RootA, RootB>> }

\* src/main.go:488-503, the loop over the attributes ListXattr returned, from
\* the i-th on; o[i] is the outcome of the i-th GetXattr
RECURSIVE DiscoverAttrs(_, _, _, _, _)
DiscoverAttrs(st, entry, names, o, i) ==
    IF i > Len(names) \/ st.panicked THEN st
    ELSE LET attr == names[i]
             st1 == [st EXCEPT !.reads = @ \cup {<<entry.Path, attr, o[i]>>}]
             p == ParseFloat(RawOf(entry.Path, attr, o[i]))
             name == MetricName(attr)
             dm == AddGauge([gauges |-> st1.gauges, registered |-> st1.registered], name)
             st2 == [st1 EXCEPT !.gauges = dm.gauges, !.registered = dm.registered,
                                !.reused = IF dm.hit THEN @ \cup {name} ELSE @,
                                !.panicked = dm.panic]
             st3 == [st2 EXCEPT !.series = SetSeries(@, <<name>> \o Tags(entry), p.f),
                                !.sampled = @ \cup {<<attr, entry.Path>>}]
         IN IF o[i] = "err" THEN DiscoverAttrs(st1, entry, names, o, i + 1)
            ELSE IF dm.panic THEN st2
            ELSE DiscoverAttrs(st3, entry, names, o, i + 1)

perFrame == <<fs, config, entries, listed, popped, pushed, rejected, late, collVars, concVars,
              stackGhost>>

\* a loop that starts UpdateMetrics on a timer, whether or not the previous
\* invocation has returned: what the background loop does not do
PStartOnTimer ==
    /\ pc \in { "idle", "sleeping", "walking" }
    /\ walks < MaxWalks
    /\ walks' = walks + 1
    /\ pc' = "walking"
    /\ pidx' = 1
    /\ reads' = {}
    /\ sampled' = {}
    /\ reused' = {}
    /\ running' = running + 1
    /\ UNCHANGED <<gauges, registered, series, faults, scraped, completed, perFrame>>

\* the background loop calls UpdateMetrics: LoadDirsConfig (src/main.go:476)
PStart ==
    /\ pc \in { "idle", "sleeping" }
    /\ walks < MaxWalks
    /\ walks' = walks + 1
    /\ pc' = "walking"
    /\ pidx' = 1
    /\ reads' = {}
    /\ sampled' = {}
    /\ reused' = {}
    /\ running' = running + 1
    /\ UNCHANGED <<gauges, registered, series, faults, scraped, completed, perFrame>>

\* one round of the loop over the entries, src/main.go:480-504
PEntry ==
    /\ pc = "walking"
    /\ pidx <= Len(config)
    /\ LET entry == config[pidx]
           names == ListXattr(entry.Path)
       IN \/ /\ faults < MaxFaults
             /\ faults' = faults + 1
             /\ UNCHANGED <<gauges, registered, series, reads, sampled, reused, pc>>
          \/ \E o \in [1..Len(names) -> Outcomes] :
               LET n == Cardinality({ i \in 1..Len(names) : o[i] /= "ok" })
                   st == DiscoverAttrs(WalkState, entry, names, o, 1)
               IN /\ faults + n <= MaxFaults
                  /\ faults' = faults + n
                  /\ gauges' = st.gauges
                  /\ registered' = st.registered
                  /\ series' = st.series
                  /\ reads' = st.reads
                  /\ sampled' = st.sampled
                  /\ reused' = st.reused
                  /\ pc' = IF st.panicked THEN "fatal" ELSE "walking"
    /\ pidx' = pidx + 1
    /\ completed' = IF pidx = Len(config) /\ pc' = "walking"
                    THEN completed \cup {series'} ELSE completed
    /\ UNCHANGED <<walks, scraped, running, perFrame>>

\* UpdateMetrics returns and the loop sleeps (src/main.go:541-542)
PSleep ==
    /\ pc = "walking"
    /\ pidx > Len(config)
    /\ pc' = "sleeping"
    /\ running' = running - 1
    /\ UNCHANGED <<gauges, registered, series, walks, faults, reads, sampled, reused,
                   pidx, scraped, completed, perFrame>>

\* a scrape: promhttp.Handler serves the registry as it is (src/main.go:537)
Scrape ==
    /\ pc /= "fatal"
    /\ scraped' = series
    /\ UNCHANGED <<pc, gauges, registered, series, walks, faults, reads, sampled, reused,
                   pidx, completed, running, perFrame>>

NextPeriodic == PStart \/ PEntry \/ PSleep \/ Scrape

SpecPeriodic == InitPeriodic /\ [][NextPeriodic]_vars

\* C8: an attribute value that fails numeric parsing produces no sample: for
\* every path and attribute whose raw value is no number, no value is recorded
\* for that series and no gauge is created on its behalf.
C8_UnparsableNoSample ==
    /\ \A r \in reads :
          (r[3] /= "err" /\ ~ParseFloat(RawOf(r[1], r[2], r[3])).ok)
          => <<r[2], r[1]>> \notin sampled
    /\ MetricName(USERTAG) \notin gauges

\* C12: with the background loop a scrape never observes a partially updated
\* snapshot: the series a scrape returned are the series as one completed walk
\* left them (or the empty registry before the first walk).
C12_ScrapeSeesCompletedWalk == scraped \in completed

\* C13: with the background loop at most one walk executes at any time: the
\* number of UpdateMetrics invocations in progress is 0 or 1, it is 1 exactly
\* while a walk is between its start and its return, however many scrapes
\* arrive.
C13_AtMostOneWalk ==
    /\ running \in {0, 1}
    /\ (running = 1) <=> (pc \in {"walking", "fatal"})

\* a second walk is in progress, alone, after a scrape was served
C13_Witness == walks = 2 /\ running = 1 /\ pidx > 1 /\ scraped /= <<>>

----------------------------------------------------------------------------
(* Further claims about the stack walker, under SpecStack *)

\* the read of an attribute of a path did not fail and gave a number
ReadableNumeric(path, attr) ==
    /\ <<path, attr, "err">> \notin reads
    /\ <<path, attr, "bad">> \notin reads

WalkReturned == pc = "idle" /\ walks > 0

\* C11: the size threshold never prunes a configured root: when a walk has
\* returned, every configured root is sampled for every attribute of it that
\* was readable and numeric, whatever its size; and during the walk a popped
\* root whose size was read is sampled for it.
C11_RootAlwaysSampled ==
    /\ WalkReturned =>
          \A i \in 1..Len(config) : \A a \in {RBYTES, RENTRIES, RFILES} :
             ReadableNumeric(config[i].Path, a) => <<a, config[i].Path>> \in sampled
    /\ \A i \in 1..Len(popped) :
          (Depth(popped[i]) = 0 /\ <<popped[i].Path, RBYTES, "ok">> \in reads)
          => <<RBYTES, popped[i].Path>> \in sampled

\* a walk has returned and sampled a root whose size is below the threshold
C11_Witness ==
    /\ WalkReturned
    /\ \E i \in 1..Len(config) :
          /\ SizeOf(config[i].Path) < directorySizeToRecursse
          /\ \A a \in {RBYTES, RENTRIES, RFILES} : <<a, config[i].Path>> \in sampled

\* how many times an entry was popped in this walk
TimesPopped(e) == Cardinality({ j \in 1..Len(popped) : popped[j] = e })

\* UpdateMetrics has ended: it returned, or it was left by a panic
WalkEnded == pc \in {"idle", "panicked"} /\ walks > 0

\* C14: every walk is finite and complete: whatever read failures occur, when
\* UpdateMetrics has ended the Frontier is empty and every configured root and
\* every entry that was pushed has been popped and processed exactly once.
C14_WalkEndsWithEmptyFrontier ==
    WalkEnded =>
       /\ entries = <<>>
       /\ \A i \in 1..Len(config) : TimesPopped(config[i]) = 1
       /\ \A i \in 1..Len(pushed) : TimesPopped(pushed[i]) = 1

\* C16: a failed listing is not retried and its branch is abandoned: after a
\* failed OpenDir no entry is read from the handle, no child of that directory
\* is pushed, and the walk goes on with the next entry of the Frontier
\* (UpdateMetrics is not left by a panic).
C16_FailedOpenDirAbandonsBranch ==
    \A d \in dirErrors :
       d[2] = "open" =>
          /\ ChildrenPushedOf(d[1]) = {}
          /\ \A e \in seen : Parent(e.Path) /= d[1]
          /\ pc /= "panicked"

\* C15: a walk is idempotent: re-running it on the unchanged filesystem with
\* the unchanged roots (no read fails in either walk) records the same set of
\* (metric, organisation, user, path, value) samples, and the series of the
\* registry after the second walk are those after the first.
C15_WalkIdempotent ==
    (walks >= 2 /\ pc = "idle" /\ faults = 0) =>
       /\ Samples = prevSamples
       /\ series = prevSeries

\* a second walk without failures has returned after visiting a subtree
C15_Witness ==
    /\ walks = 2 /\ pc = "idle" /\ faults = 0
    /\ Len(popped) >= 3
    /\ Cardinality(Samples) >= 9

\* e is anc or was discovered below it
Desc(e, anc) ==
    /\ RootOf(e) = RootOf(anc)
    /\ IsPrefix(anc.Path, e.Path)

\* the roots and the children in the order they entered the Frontier
PushOrder == config \o pushed

PushPos(e) == CHOOSE i \in 1..Len(PushOrder) : PushOrder[i] = e

\* C17: the processing order is depth-first: once an entry is popped, it and
\* the entries of its subtree are popped in one run, before any entry that was
\* in the Frontier already; the Frontier holds, in the order they were pushed,
\* the items pushed and not yet popped, Pop taking the most recently pushed.
C17_DepthFirst ==
    /\ \A i, j, k \in 1..Len(popped) :
          (i < j /\ j < k /\ Desc(popped[k], popped[i])) => Desc(popped[j], popped[i])
    /\ pc = "walking" =>
          /\ \A a, b \in 1..Len(entries) :
                a < b => PushPos(entries[a]) < PushPos(entries[b])
          /\ \A i \in 1..Len(PushOrder) :
                (\E a \in 1..Len(entries) : entries[a] = PushOrder[i])
                <=> (\A j \in 1..Len(popped) : popped[j] /= PushOrder[i])

\* the subtree of /b/p was popped down to /b/p/s/t while the root /a waits
C17_Witness ==
    /\ pc = "walking"
    /\ entries = <<RootA>>
    /\ \E i \in 1..Len(popped) : popped[i].Path = <<"b", "p", "s", "t">>

\* C18: the identity labels are carried down unchanged: every pushed entry has
\* the organisation and user of the popped entry it was discovered from and
\* the path join(parent path, child name); every series carries the
\* organisation and user of a configured root and a path at or below it.
C18_LabelsCarriedDown ==
    /\ \A i \in 1..Len(pushed) :
          \E j \in 1..Len(popped) :
             /\ RootOf(pushed[i]) = RootOf(popped[j])
             /\ \E k \in 1..Len(Listing(popped[j].Path)) :
                   pushed[i].Path = Append(popped[j].Path, Listing(popped[j].Path)[k].name)
    /\ \A key \in DOMAIN series :
          \E i \in 1..Len(config) :
             /\ key[2] = config[i].Organisation
             /\ key[3] = config[i].User
             /\ IsPrefix(config[i].Path, key[4])

\* a series of a directory three levels below the root /b carries its labels
C18_Witness ==
    \E key \in DOMAIN series :
       key[2] = "beta" /\ key[3] = "bob" /\ key[4] = <<"b", "p", "s", "t">>

\* the series is one of the entry popped in this step, set in this step
WrittenInStep(key) ==
    /\ Len(popped') > Len(popped)
    /\ <<key[2], key[3], key[4]>> = Tags(popped'[Len(popped')])
    /\ \E a \in {RBYTES, RENTRIES, RFILES} :
          key[1] = MetricName(a) /\ <<a, key[4]>> \in sampled'

\* C19: a walk leaves untouched every series it does not write: no step
\* removes a series or a gauge definition, and a series keeps its value unless
\* the step sets it for the entry it popped.
C19_WalkKeepsOtherSeries ==
    [][ /\ gauges \subseteq gauges'
        /\ \A key \in DOMAIN series :
              /\ key \in DOMAIN series'
              /\ series'[key] = series[key] \/ WrittenInStep(key) ]_vars

\* a second walk has returned without writing a series of the first walk
\* (a read of it failed): the series is still there with its value
C19_Witness ==
    /\ walks = 2 /\ pc = "idle"
    /\ \E key \in DOMAIN prevSeries :
          /\ \A a \in {RBYTES, RENTRIES, RFILES} :
                key[1] = MetricName(a) => <<a, key[4]>> \notin sampled
          /\ key \in DOMAIN series
          /\ series[key] = prevSeries[key]

\* how many times an entry was pushed in this walk
TimesPushed(e) == Cardinality({ i \in 1..Len(pushed) : pushed[i] = e })

\* the entries of the listing of a directory that are directories, "." and
\* ".." left out, as the entries a popped entry would push
DirChildren(entry) ==
    { PathEntry(entry.Organisation, entry.User, Append(entry.Path, Listing(entry.Path)[k].name)) :
        k \in { k \in 1..Len(Listing(entry.Path)) :
                  /\ Listing(entry.Path)[k].dtype = DT_DIR
                  /\ Listing(entry.Path)[k].name \notin {".", ".."} } }

\* the listing of the directory was opened and read to its end
ListedWhole(path) ==
    /\ path \in listed
    /\ <<path, "open">> \notin dirErrors
    /\ <<path, "read">> \notin dirErrors

\* only directories are pushed, visited and sampled: every pushed entry is a
\* directory entry, other than "." and "..", of the listing of a popped entry,
\* and every popped entry is a configured root or a pushed entry
OnlyDirectoriesPushed ==
    /\ \A i \in 1..Len(pushed) :
          \E j \in 1..Len(popped) :
             popped[j].Path \in listed /\ pushed[i] \in DirChildren(popped[j])
    /\ \A j \in 1..Len(popped) :
          (\E i \in 1..Len(config) : config[i] = popped[j]) \/ TimesPushed(popped[j]) = 1
    /\ \A x \in sampled : \E j \in 1..Len(popped) : popped[j].Path = x[2]

\* C20 as stated: only directories are pushed, and every directory child other
\* than "." and ".." of a directory whose listing was read to its end is
\* pushed exactly once.
C20_EveryDirChildPushedOnce ==
    /\ OnlyDirectoriesPushed
    /\ \A j \in 1..Len(popped) :
          ListedWhole(popped[j].Path) =>
             \A e \in DirChildren(popped[j]) : TimesPushed(e) = 1

\* C20, amended: only directories are pushed; of a directory whose listing
\* was read to its end every directory child other than "." and ".." was
\* returned by ReadDir; and every child ReadDir returned is pushed exactly
\* once, unless its Push was rejected by the full Frontier: then it is not
\* pushed at all.
C20_DirChildPushedOnceOrRejected ==
    /\ OnlyDirectoriesPushed
    /\ \A j \in 1..Len(popped) :
          ListedWhole(popped[j].Path) => DirChildren(popped[j]) \subseteq seen
    /\ \A e \in seen :
          \/ TimesPushed(e) = 1 /\ e \notin rejected
          \/ TimesPushed(e) = 0 /\ e \in rejected
    /\ \A i \in 1..Len(pushed) : pushed[i] \in seen

\* a walk has returned in which /a, which holds a file and a directory, was
\* listed and its directory pushed, and a Push of another child was rejected
C20_Witness ==
    /\ WalkReturned
    /\ <<"a">> \in listed
    /\ TimesPushed(PathEntry("acme", "alice", <<"a", "x">>)) = 1
    /\ rejected /= {}

----------------------------------------------------------------------------
(* A further claim about the discover-all exporter, under SpecPeriodic *)

\* C21: the derivation of the metric name is injective on the attribute names
\* that are discovered: two distinct attributes sampled in a walk never have
\* the same metric name, so they never share a gauge nor a series of one
\* (organisation, user, path).
C21_MetricNameInjective ==
    \A x, y \in sampled :
       x[1] /= y[1] => MetricName(x[1]) /= MetricName(y[1])

====
